---- MODULE Spec2Model ----
(***************************************************************************)
(* Madad map client (src/src/App.jsx, themed variant in                   *)
(* src/unnamed/part_000 lines 1-472): the session state held by App, the  *)
(* localStorage shadow of it, the AuthScreen form, and the geolocation /  *)
(* vendor-fetch flows.                                                     *)
(*                                                                         *)
(* Execution model.  JavaScript runs every handler and every promise      *)
(* continuation to completion, and React 18 batches the setState calls of *)
(* one continuation into one commit, so each handler segment between two  *)
(* awaits is one action.  An effect whose dependencies changed runs right *)
(* after the commit that changed them and before any other update is      *)
(* processed, so it is part of the action that changed the dependency.    *)
(* A request in flight is an element of a request sequence; its           *)
(* resolution is a separate action that may pick any element.             *)
(*                                                                         *)
(* Coordinates are integers in units of 1e-4 degree.                       *)
(***************************************************************************)
EXTENDS Integers, Sequences, FiniteSets, TLC

(* ------------------------------ bounds -------------------------------- *)
MaxLoginReqs == 2
MaxVerifyReqs == 2
MaxGeoReqs == 2
MaxFetches == 3
MaxKeys == 1
MaxThemes == 2

(* --------------------------- JavaScript values ------------------------ *)
Null == [t |-> "null", s |-> "", id |-> 0, name |-> ""]

Undefined == [t |-> "undefined", s |-> "", id |-> 0, name |-> ""]

Str(x) == [t |-> "string", s |-> x, id |-> 0, name |-> ""]

\* an object {id, name?}; name = "" stands for "no name property"
Obj(i, n) == [t |-> "object", s |-> "", id |-> i, name |-> n]

\* JavaScript truthiness of a value
Truthy(v) == /\ v.t \notin {"null", "undefined"}
             /\ ~(v.t = "string" /\ v.s = "")

\* String(v), the coercion localStorage.setItem applies to its value
String(v) == CASE v.t = "string" -> v.s
               [] v.t = "null" -> "null"
               [] v.t = "undefined" -> "undefined"
               [] OTHER -> "[object Object]"

\* JSON.stringify(v): a string value, or undefined for undefined
JSONstringify(v) ==
  CASE v.t = "undefined" -> Undefined
    [] v.t = "null" -> Str("null")
    [] v.t = "string" -> Str("\"" \o v.s \o "\"")
    [] OTHER -> Str("{\"id\":" \o ToString(v.id)
                    \o (IF v.name = "" THEN ""
                        ELSE ",\"name\":\"" \o v.name \o "\"")
                    \o "}")

TokenStrings == {"T1", "T2"}

Users == {Obj(1, "Ali"), Obj(2, "")}

\* the JSON values of the model; JSON.parse is the inverse of
\* JSON.stringify on their texts and throws on every other text
JsonValues == {Null} \cup {Str(x) : x \in TokenStrings} \cup Users

JSONparse(s) ==
  IF \E v \in JsonValues : JSONstringify(v) = Str(s)
  THEN [threw |-> FALSE,
        val |-> CHOOSE v \in JsonValues : JSONstringify(v) = Str(s)]
  ELSE [threw |-> TRUE, val |-> Undefined]

(* --------------------------- program constants ------------------------ *)
themeKeys == <<"emerald", "sky", "fuchsia", "amber", "lime">>

serviceKeys ==
  <<"tow_truck", "mechanic", "hotel", "medical", "car_wash", "electrician",
    "plumber">>

\* the theme buttons and category chips the model clicks
ThemeChoices == {themeKeys[i] : i \in 1..MaxThemes}

CategoryChoices == {""} \cup {serviceKeys[i] : i \in 1..MaxKeys}

IsThemeKey(k) == \E i \in 1..Len(themeKeys) : themeKeys[i] = k

\* property names the object literal `themes` inherits from Object.prototype
ObjectPrototypeKeys ==
  {"constructor", "toString", "valueOf", "hasOwnProperty", "__proto__"}

\* themes[k] is truthy: k is an own key of themes (each maps to an object)
\* or the name of an inherited property
themesLookup(k) == IsThemeKey(k) \/ k \in ObjectPrototypeKeys

\* what localStorage may hold under madad_theme when the page is opened:
\* nothing, a key written by handleThemeChange, a name that is no property
\* of themes, and a name themes inherits
StoredThemes == {Null, Str("sky"), Str("purple"), Str("constructor")}

MinPasswordLen == 6

RadiusKm == 5

DefaultLat == 248607

DefaultLng == 670011

NoPosition == <<>>

Fixes == {<<248611, 670099>>, <<315204, 743587>>}

InitForm == [loading |-> FALSE, error |-> ""]

EmptyStore == [madad_token |-> Null, madad_user |-> Null, madad_theme |-> Null]

(* ------------------------------- state -------------------------------- *)
VARIABLES
  phase,          \* "init" (first render committed), "running", "crashed"
  hasGeolocation, \* navigator.geolocation is available
  token, user, showAuthGate, theme,      \* App state
  position, vendors, serviceType, loading, error,
  store,          \* localStorage: key -> Null (no entry) | Str(text)
  form,           \* loading/error of the mounted AuthScreen
  loginReqs,      \* auth POSTs in flight
  verifyReqs,     \* GET /api/auth/me in flight: the token each carries,
                  \* whether the call will never settle, and whether it is
                  \* the call a liveness property follows
  geoReqs,        \* getCurrentPosition calls in flight
  vendorReqs,     \* GET /api/vendors/nearby in flight
  issued,         \* number of vendor fetches issued since page load
  shown,          \* issue number of the fetch whose result is displayed
  saved,          \* the session last written to the store, if still there
  last            \* the step that led to this state

vars == <<phase, hasGeolocation, token, user, showAuthGate, theme, position,
          vendors, serviceType, loading, error, store, form, loginReqs,
          verifyReqs, geoReqs, vendorReqs, issued, shown, saved, last>>

sessionVars == <<token, user, showAuthGate, store, form, loginReqs,
                 verifyReqs, saved>>

vendorVars == <<position, vendors, serviceType, loading, error, geoReqs,
                vendorReqs, issued, shown>>

NoSession == [present |-> FALSE, token |-> Undefined, user |-> Undefined]

Init ==
  /\ phase = "init"
  /\ hasGeolocation \in BOOLEAN
  /\ token = Null
  /\ user = Null
  /\ showAuthGate = TRUE
  /\ theme = "emerald"
  /\ position = NoPosition
  /\ vendors = <<>>
  /\ serviceType = ""
  /\ loading = FALSE
  /\ error = ""
  /\ store = EmptyStore
  /\ form = InitForm
  /\ loginReqs = <<>>
  /\ verifyReqs = <<>>
  /\ geoReqs = <<>>
  /\ vendorReqs = <<>>
  /\ issued = 0
  /\ shown = 0
  /\ saved = NoSession
  /\ last = [op |-> "construct"]

(* ---------------------------- localStorage ---------------------------- *)
getItem(k) == store[k]

setItem(st, k, v) == [st EXCEPT ![k] = Str(String(v))]

removeItem(st, k) == [st EXCEPT ![k] = Null]

(* ------------------------------ App: session -------------------------- *)
\* dismissing the auth gate unmounts AuthScreen: the requests its
\* handleSubmit still awaits can no longer set its loading/error state
Unmounted(reqs) == [i \in 1..Len(reqs) |-> [reqs[i] EXCEPT !.live = FALSE]]

RemoveAt(q, i) == SubSeq(q, 1, i - 1) \o SubSeq(q, i + 1, Len(q))

\* a verify effect that sends the token of the render before the commit
verifyStale(oldToken, newToken) ==
  IF newToken # oldToken /\ Truthy(newToken)
  THEN /\ Len(verifyReqs) < MaxVerifyReqs
       /\ verifyReqs' = Append(verifyReqs, [token |-> oldToken, stalled |-> FALSE,
                                            watched |-> FALSE])
  ELSE verifyReqs' = verifyReqs

\* a verify effect without the `if (!token) return` guard
verifyNoGuard(oldToken, newToken) ==
  IF newToken # oldToken
  THEN /\ Len(verifyReqs) < MaxVerifyReqs
       /\ verifyReqs' = Append(verifyReqs, [token |-> newToken, stalled |-> FALSE,
                                            watched |-> FALSE])
  ELSE verifyReqs' = verifyReqs

\* the verify effect, run when a commit changed its dependency `token`:
\* if (!token) return, else fetch /api/auth/me with Bearer token
verify(oldToken, newToken) ==
  IF newToken # oldToken /\ Truthy(newToken)
  THEN /\ Len(verifyReqs) < MaxVerifyReqs
       /\ verifyReqs' = Append(verifyReqs, [token |-> newToken, stalled |-> FALSE,
                                            watched |-> FALSE])
  ELSE verifyReqs' = verifyReqs

\* restore without JSON.parse: the stored text itself becomes the user
restoreUserRaw(u) ==
  IF Truthy(u) THEN [threw |-> FALSE, val |-> u]
  ELSE [threw |-> FALSE, val |-> user]

\* restore: if (u) setUser(JSON.parse(u))
restoreUser(u) ==
  IF Truthy(u) THEN JSONparse(u.s) ELSE [threw |-> FALSE, val |-> user]

\* the mount effects of App: restore, verify, geolocation, fetchNearby
Mount ==
  /\ phase = "init"
  /\ LET t == getItem("madad_token")
         u == getItem("madad_user")
         savedTheme == getItem("madad_theme")
         parsed == restoreUser(u)
     IN IF parsed.threw
        THEN \* JSON.parse throws inside the effect: React unmounts the tree
             /\ phase' = "crashed"
             /\ last' = [op |-> "restore", threw |-> TRUE]
             /\ UNCHANGED <<token, user, showAuthGate, theme, form,
                            verifyReqs, geoReqs>>
        ELSE /\ phase' = "running"
             /\ token' = IF Truthy(t) THEN t ELSE token
             /\ user' = parsed.val
             /\ showAuthGate' = ~Truthy(t)
             /\ theme' = IF Truthy(savedTheme) /\ themesLookup(savedTheme.s)
                         THEN savedTheme.s ELSE theme
             /\ form' = InitForm
             /\ verify(token, token')
             /\ geoReqs' = IF hasGeolocation
                           THEN Append(geoReqs, [onError |-> TRUE])
                           ELSE geoReqs
             /\ last' = [op |-> "restore", threw |-> FALSE]
  /\ UNCHANGED <<hasGeolocation, store, saved, loginReqs, position, vendors,
                 serviceType, loading, error, vendorReqs, issued, shown>>

\* the page is loaded again: React state starts over, callbacks of the old
\* page never run, localStorage stays
Reload ==
  /\ phase # "init"
  /\ phase' = "init"
  /\ token' = Null
  /\ user' = Null
  /\ showAuthGate' = TRUE
  /\ theme' = "emerald"
  /\ position' = NoPosition
  /\ vendors' = <<>>
  /\ serviceType' = ""
  /\ loading' = FALSE
  /\ error' = ""
  /\ form' = InitForm
  /\ loginReqs' = <<>>
  /\ verifyReqs' = <<>>
  /\ geoReqs' = <<>>
  /\ vendorReqs' = <<>>
  /\ issued' = 0
  /\ shown' = 0
  /\ last' = [op |-> "reload"]
  /\ UNCHANGED <<hasGeolocation, store, saved>>

(* ------------------------------ AuthScreen ---------------------------- *)
Modes == {"login", "register"}

Phones == {"", "0300"}

Emails == {"", "a@b.pk"}

Passwords == {"12345", "123456"}

\* a check that looks at the password only
canSubmitPasswordOnly(phone, email, password) ==
  Len(password) >= MinPasswordLen

canSubmit(phone, email, password) ==
  /\ Len(password) >= MinPasswordLen
  /\ (Truthy(Str(phone)) \/ Truthy(Str(email)))

\* handleSubmit up to the await of fetch
Submit(mode, phone, email, password) ==
  /\ phase = "running"
  /\ showAuthGate
  /\ ~form.loading
  /\ IF ~canSubmit(phone, email, password)
     THEN /\ last' = [op |-> "submitBlocked"]
          /\ UNCHANGED <<form, loginReqs>>
     ELSE /\ Len(loginReqs) < MaxLoginReqs
          /\ form' = [loading |-> TRUE, error |-> ""]
          /\ loginReqs' = Append(loginReqs, [mode |-> mode, live |-> TRUE])
          /\ last' = [op |-> "submit", phone |-> phone, email |-> email,
                      password |-> password]
  /\ UNCHANGED <<phase, hasGeolocation, token, user, showAuthGate, theme,
                 store, saved, verifyReqs, vendorVars>>

\* what the auth endpoint may answer
AccessTokens == {Undefined} \cup {Str(x) : x \in TokenStrings}

ReplyUsers == {Undefined} \cup Users

Details == {Undefined, Str("Invalid credentials")}

LoginReplies ==
  {[status |-> "neterr", ok |-> FALSE, body |-> "none", detail |-> Undefined,
    access_token |-> Undefined, user |-> Undefined]}
  \cup {[status |-> "http", ok |-> FALSE, body |-> b, detail |-> Undefined,
         access_token |-> Undefined, user |-> Undefined] :
          b \in {"unparsable", "null"}}
  \cup {[status |-> "http", ok |-> FALSE, body |-> "object", detail |-> d,
         access_token |-> Undefined, user |-> Undefined] : d \in Details}
  \cup {[status |-> "http", ok |-> TRUE, body |-> b, detail |-> Undefined,
         access_token |-> Undefined, user |-> Undefined] :
          b \in {"unparsable", "null"}}
  \cup {[status |-> "http", ok |-> TRUE, body |-> "object",
         detail |-> Undefined, access_token |-> a, user |-> u] :
          a \in AccessTokens, u \in ReplyUsers}

\* the try block of handleSubmit after the fetch settled: what it throws,
\* or the token and user it read from the body
SubmitOutcome(reply) ==
  CASE reply.status = "neterr" ->
         [threw |-> TRUE, message |-> "Failed to fetch"]
    [] reply.body = "null" ->
         [threw |-> TRUE, message |-> "Cannot read properties of null"]
    [] ~reply.ok /\ reply.body = "unparsable" ->
         [threw |-> TRUE, message |-> "Authentication failed"]
    [] ~reply.ok ->
         [threw |-> TRUE,
          message |-> IF Truthy(reply.detail) THEN String(reply.detail)
                      ELSE "Authentication failed"]
    [] reply.body = "unparsable" ->
         [threw |-> TRUE, message |-> "Unexpected token < in JSON"]
    [] OTHER ->
         [threw |-> FALSE, message |-> "", token |-> reply.access_token,
          user |-> reply.user]

\* why the call failed: no response, a non-success status, or a body that
\* cannot be read
FailureCause(reply) ==
  IF reply.status = "neterr" THEN "network"
  ELSE IF ~reply.ok THEN "status" ELSE "body"

\* localStorage.setItem('madad_token', ..), setItem('madad_user', ..)
SaveSession(tok, usr) ==
  store' = setItem(setItem(store, "madad_token", tok), "madad_user",
                   JSONstringify(usr))

\* handleAuthed without setShowAuthGate(false)
handleAuthedKeepsGate(tok, usr) ==
  /\ token' = tok
  /\ user' = usr
  /\ showAuthGate' = showAuthGate

handleAuthed(tok, usr) ==
  /\ token' = tok
  /\ user' = usr
  /\ showAuthGate' = FALSE

\* a catch block that drops the error: only finally's setLoading(false) runs
SubmitFailedSilent(req, message) ==
  form' = IF req.live THEN [loading |-> FALSE, error |-> form.error] ELSE form

\* handleSubmit's catch and finally, on the AuthScreen that issued the call
SubmitFailed(req, message) ==
  form' = IF req.live THEN [loading |-> FALSE, error |-> message] ELSE form

\* handleSubmit from the settled fetch to its end
LoginResolve(i, reply) ==
  /\ phase = "running"
  /\ i \in 1..Len(loginReqs)
  /\ LET req == loginReqs[i]
         out == SubmitOutcome(reply)
     IN IF out.threw
        THEN /\ SubmitFailed(req, out.message)
             /\ loginReqs' = RemoveAt(loginReqs, i)
             /\ last' = [op |-> "authFailed", cause |-> FailureCause(reply),
                         live |-> req.live, message |-> out.message,
                         detail |-> reply.detail]
             /\ UNCHANGED <<token, user, showAuthGate, store, saved,
                            verifyReqs>>
        ELSE /\ SaveSession(out.token, out.user)
             /\ handleAuthed(out.token, out.user)
             /\ verify(token, token')
             /\ form' = InitForm
             /\ loginReqs' = Unmounted(RemoveAt(loginReqs, i))
             /\ saved' = [present |-> TRUE, token |-> out.token,
                          user |-> out.user]
             /\ last' = [op |-> "authOk", mode |-> req.mode,
                         token |-> out.token, user |-> out.user]
  /\ UNCHANGED <<phase, hasGeolocation, theme, vendorVars>>

\* a guest handler that also drops the in-memory session
handleGuestDropsSession ==
  /\ phase = "running"
  /\ showAuthGate
  /\ showAuthGate' = FALSE
  /\ token' = Null
  /\ user' = Null
  /\ form' = InitForm
  /\ loginReqs' = Unmounted(loginReqs)
  /\ last' = [op |-> "guest"]
  /\ UNCHANGED <<phase, hasGeolocation, theme, store, saved, verifyReqs,
                 vendorVars>>

handleGuest ==
  /\ phase = "running"
  /\ showAuthGate
  /\ showAuthGate' = FALSE
  /\ form' = InitForm
  /\ loginReqs' = Unmounted(loginReqs)
  /\ last' = [op |-> "guest"]
  /\ UNCHANGED <<phase, hasGeolocation, token, user, theme, store, saved,
                 verifyReqs, vendorVars>>

\* the header's "Sign in" button, rendered while user is falsy
SignIn ==
  /\ phase = "running"
  /\ ~Truthy(user)
  /\ ~showAuthGate
  /\ showAuthGate' = TRUE
  /\ last' = [op |-> "signIn"]
  /\ UNCHANGED <<phase, hasGeolocation, token, user, theme, store, saved,
                 form, loginReqs, verifyReqs, vendorVars>>

\* a clear that forgets removeItem('madad_user')
ClearSessionTokenOnly ==
  /\ store' = removeItem(store, "madad_token")
  /\ token' = Null
  /\ user' = Null
  /\ showAuthGate' = TRUE

\* removeItem x2, setToken(null), setUser(null), setShowAuthGate(true)
ClearSession ==
  /\ store' = removeItem(removeItem(store, "madad_token"), "madad_user")
  /\ token' = Null
  /\ user' = Null
  /\ showAuthGate' = TRUE

\* a logout that resets the React state and leaves localStorage alone
logoutMemoryOnly ==
  /\ phase = "running"
  /\ Truthy(user)
  /\ token' = Null
  /\ user' = Null
  /\ showAuthGate' = TRUE
  /\ last' = [op |-> "logout"]
  /\ UNCHANGED <<phase, hasGeolocation, theme, store, saved, form, loginReqs,
                 verifyReqs, vendorVars>>

\* a Logout button that is disabled while a who-am-I call is in flight
logoutWhenIdle ==
  /\ phase = "running"
  /\ Truthy(user)
  /\ verifyReqs = <<>>
  /\ ClearSession
  /\ saved' = NoSession
  /\ last' = [op |-> "logout"]
  /\ UNCHANGED <<phase, hasGeolocation, theme, form, loginReqs, verifyReqs,
                 vendorVars>>

\* the header's "Logout" button, rendered while user is truthy
logout ==
  /\ phase = "running"
  /\ Truthy(user)
  /\ ClearSession
  /\ saved' = NoSession
  /\ last' = [op |-> "logout"]
  /\ UNCHANGED <<phase, hasGeolocation, theme, form, loginReqs, verifyReqs,
                 vendorVars>>

\* how GET /api/auth/me may end
VerifyOutcomes ==
  {[mode |-> "timeout", status |-> 0, body |-> "none"]}
  \cup {[mode |-> "http", status |-> s, body |-> b] :
          s \in {200, 401, 500}, b \in {"json", "malformed"}}

ResOk(status) == status >= 200 /\ status <= 299

\* a verify that forgets the !res.ok check: only a rejected fetch throws
VerifyThrowsOnRejectOnly(outcome) == outcome.mode = "timeout"

\* verify's try block throws: the fetch rejected or !res.ok
VerifyThrows(outcome) == outcome.mode = "timeout" \/ ~ResOk(outcome.status)

\* a verify that, when its try block throws, sends the request again and
\* leaves the session alone
VerifyResolveRetries(i, outcome) ==
  /\ phase = "running"
  /\ i \in 1..Len(verifyReqs)
  /\ ~verifyReqs[i].stalled
  /\ verifyReqs' = IF VerifyThrows(outcome) THEN verifyReqs
                   ELSE RemoveAt(verifyReqs, i)
  /\ last' = [op |-> "verified", outcome |-> outcome,
              hadToken |-> Truthy(token)]
  /\ UNCHANGED <<phase, hasGeolocation, token, user, showAuthGate, theme,
                 store, saved, form, loginReqs, vendorVars>>

\* a verify whose catch block also raises the page's error notice
VerifyResolveNotifies(i, outcome) ==
  /\ phase = "running"
  /\ i \in 1..Len(verifyReqs)
  /\ ~verifyReqs[i].stalled
  /\ verifyReqs' = RemoveAt(verifyReqs, i)
  /\ IF VerifyThrows(outcome)
     THEN /\ ClearSession
          /\ saved' = NoSession
          /\ error' = "Session expired"
     ELSE UNCHANGED <<store, token, user, showAuthGate, saved, error>>
  /\ last' = [op |-> "verified", outcome |-> outcome,
              hadToken |-> Truthy(token)]
  /\ UNCHANGED <<phase, hasGeolocation, theme, form, loginReqs, position,
                 vendors, serviceType, loading, geoReqs, vendorReqs, issued,
                 shown>>

\* verify from the settled fetch to its end
VerifyResolve(i, outcome) ==
  /\ phase = "running"
  /\ i \in 1..Len(verifyReqs)
  /\ ~verifyReqs[i].stalled
  /\ verifyReqs' = RemoveAt(verifyReqs, i)
  /\ IF VerifyThrows(outcome)
     THEN /\ ClearSession
          /\ saved' = NoSession
     ELSE UNCHANGED <<store, token, user, showAuthGate, saved>>
  /\ last' = [op |-> "verified", outcome |-> outcome,
              hadToken |-> Truthy(token)]
  /\ UNCHANGED <<phase, hasGeolocation, theme, form, loginReqs, vendorVars>>

handleThemeChange(k) ==
  /\ phase = "running"
  /\ theme' = k
  /\ store' = setItem(store, "madad_theme", Str(k))
  /\ last' = [op |-> "theme"]
  /\ UNCHANGED <<phase, hasGeolocation, token, user, showAuthGate, saved,
                 form, loginReqs, verifyReqs, vendorVars>>

NextSession ==
  \/ Mount
  \/ Reload
  \/ \E m \in Modes, ph \in Phones, em \in Emails, pw \in Passwords :
       Submit(m, ph, em, pw)
  \/ \E i \in 1..MaxLoginReqs, r \in LoginReplies : LoginResolve(i, r)
  \/ handleGuest
  \/ SignIn
  \/ logout
  \/ \E i \in 1..MaxVerifyReqs, o \in VerifyOutcomes : VerifyResolve(i, o)

\* The session handlers neither read nor write hasGeolocation, and touch
\* geoReqs only in Mount; the session specifications fix it to TRUE.
InitSession == Init /\ hasGeolocation

SpecSession == InitSession /\ [][NextSession]_vars

NextStore == NextSession \/ \E k \in ThemeChoices : handleThemeChange(k)

SpecStore == InitSession /\ [][NextStore]_vars

(* --------------- the theme over a localStorage found as is ------------- *)
\* the page opened over a madad_theme entry it did not necessarily write
InitTheme ==
  /\ phase = "init"
  /\ hasGeolocation = TRUE
  /\ token = Null
  /\ user = Null
  /\ showAuthGate = TRUE
  /\ theme = "emerald"
  /\ position = NoPosition
  /\ vendors = <<>>
  /\ serviceType = ""
  /\ loading = FALSE
  /\ error = ""
  /\ store \in {[EmptyStore EXCEPT !.madad_theme = s] : s \in StoredThemes}
  /\ form = InitForm
  /\ loginReqs = <<>>
  /\ verifyReqs = <<>>
  /\ geoReqs = <<>>
  /\ vendorReqs = <<>>
  /\ issued = 0
  /\ shown = 0
  /\ saved = NoSession
  /\ last = [op |-> "construct"]

\* the login replies this specification draws from: a transport failure
\* and the well-formed successes
ThemeLoginReplies ==
  {r \in LoginReplies :
     \/ r.status = "neterr"
     \/ r.ok /\ r.body = "object" /\ Truthy(r.access_token)
             /\ r.user = Obj(1, "Ali")}

\* the theme handlers beside the session handlers, with one form
NextTheme ==
  \/ Mount
  \/ Reload
  \/ \E k \in ThemeChoices : handleThemeChange(k)
  \/ Submit("login", "0300", "", "123456")
  \/ \E i \in 1..MaxLoginReqs, r \in ThemeLoginReplies : LoginResolve(i, r)
  \/ handleGuest
  \/ logout
  \/ \E i \in 1..MaxVerifyReqs, o \in VerifyOutcomes : VerifyResolve(i, o)

SpecTheme == InitTheme /\ [][NextTheme]_vars

(* ------------------ who-am-I calls that never settle ------------------- *)
\* fetch has no timeout of its own and verify passes no AbortSignal: a call
\* the transport never settles stays awaited for the life of the page
VerifyStall(i) ==
  /\ phase = "running"
  /\ i \in 1..Len(verifyReqs)
  /\ ~verifyReqs[i].stalled
  /\ verifyReqs' = [verifyReqs EXCEPT ![i].stalled = TRUE]
  /\ last' = [op |-> "verifyStalled"]
  /\ UNCHANGED <<phase, hasGeolocation, token, user, showAuthGate, theme,
                 store, saved, form, loginReqs, vendorVars>>

\* the login replies the liveness specification draws from: a transport
\* failure, the well-formed successes, one success without a user
LiveLoginReplies ==
  {r \in LoginReplies :
     \/ r.status = "neterr"
     \/ /\ r.ok
        /\ r.body = "object"
        /\ \/ Truthy(r.access_token) /\ r.user = Obj(1, "Ali")
           \/ r.access_token = Str("T1") /\ r.user = Undefined}

\* single out call i, at any moment of its flight, as the call a liveness
\* property follows to its end; at most one call is followed at a time
VerifyWatch(i) ==
  /\ phase = "running"
  /\ i \in 1..Len(verifyReqs)
  /\ \A j \in 1..Len(verifyReqs) : ~verifyReqs[j].watched
  /\ verifyReqs' = [verifyReqs EXCEPT ![i].watched = TRUE]
  /\ UNCHANGED <<phase, hasGeolocation, token, user, showAuthGate, theme,
                 store, saved, form, loginReqs, vendorVars, last>>

\* the transport settles call i and the continuation of verify runs
VerifySettles(i) == \E o \in VerifyOutcomes : VerifyResolve(i, o)

NextVerify ==
  \/ Mount
  \/ Reload
  \/ Submit("login", "0300", "", "123456")
  \/ \E i \in 1..MaxLoginReqs, r \in LiveLoginReplies : LoginResolve(i, r)
  \/ handleGuest
  \/ SignIn
  \/ logout
  \/ \E i \in 1..MaxVerifyReqs : VerifySettles(i)
  \/ \E i \in 1..MaxVerifyReqs : VerifyStall(i)
  \/ \E i \in 1..MaxVerifyReqs : VerifyWatch(i)

\* a call that is not stalled is settled by the transport, and the promise
\* continuation of a settled call is run by the event loop
FairVerify == \A i \in 1..MaxVerifyReqs : WF_vars(VerifySettles(i))

SpecVerify == InitSession /\ [][NextVerify]_vars /\ FairVerify

(* --------------------- App: position and vendors ---------------------- *)
\* the map centre: the position, or the Karachi default
center == IF position # NoPosition THEN position
          ELSE <<DefaultLat, DefaultLng>>

\* a query that always carries service_type, also for the "all" chip
QueryAlwaysType(pos, svc) ==
  {<<"lat", ToString(pos[1])>>, <<"lng", ToString(pos[2])>>,
   <<"radius_km", ToString(RadiusKm)>>, <<"service_type", svc>>}

\* new URLSearchParams({lat, lng, radius_km}) and the optional service_type
Query(pos, svc) ==
  {<<"lat", ToString(pos[1])>>, <<"lng", ToString(pos[2])>>,
   <<"radius_km", ToString(RadiusKm)>>}
  \cup (IF Truthy(Str(svc)) THEN {<<"service_type", svc>>} ELSE {})

\* an effect that calls the fetchNearby of the render before the commit:
\* it is closed over the old position and the old serviceType
fetchNearbyStale(pos, svc) ==
  IF position = NoPosition
  THEN UNCHANGED <<loading, error, vendorReqs, issued>>
  ELSE /\ issued < MaxFetches
       /\ loading' = TRUE
       /\ error' = ""
       /\ issued' = issued + 1
       /\ vendorReqs' = Append(vendorReqs,
                               [seq |-> issued + 1,
                                query |-> Query(position, serviceType)])

\* fetchNearby up to the await of fetch, as closed over (pos, svc)
fetchNearby(pos, svc) ==
  IF pos = NoPosition
  THEN UNCHANGED <<loading, error, vendorReqs, issued>>
  ELSE /\ issued < MaxFetches
       /\ loading' = TRUE
       /\ error' = ""
       /\ issued' = issued + 1
       /\ vendorReqs' = Append(vendorReqs,
                               [seq |-> issued + 1, query |-> Query(pos, svc)])

\* the header's Refresh button and the floating refresh button
Refresh ==
  /\ phase = "running"
  /\ fetchNearby(position, serviceType)
  /\ last' = [op |-> "refresh", hadPosition |-> position # NoPosition]
  /\ UNCHANGED <<phase, hasGeolocation, theme, sessionVars, position, vendors,
                 serviceType, geoReqs, shown>>

\* a category chip: setServiceType(k), then the effect on [position,
\* serviceType] calls fetchNearby
setServiceType(k) ==
  /\ phase = "running"
  /\ k # serviceType
  /\ serviceType' = k
  /\ fetchNearby(position, k)
  /\ last' = [op |-> "category"]
  /\ UNCHANGED <<phase, hasGeolocation, theme, sessionVars, position, vendors,
                 geoReqs, shown>>

\* the floating locate button: getCurrentPosition with a success callback only
RefreshPosition ==
  /\ phase = "running"
  /\ hasGeolocation
  /\ Len(geoReqs) < MaxGeoReqs
  /\ geoReqs' = Append(geoReqs, [onError |-> FALSE])
  /\ last' = [op |-> "locate"]
  /\ UNCHANGED <<phase, hasGeolocation, theme, sessionVars, position, vendors,
                 serviceType, loading, error, vendorReqs, issued, shown>>

\* a success callback that keeps the first fix and drops later ones
PositionFixFirstWins(i, fix) ==
  /\ phase = "running"
  /\ i \in 1..Len(geoReqs)
  /\ geoReqs' = RemoveAt(geoReqs, i)
  /\ position' = IF position = NoPosition THEN fix ELSE position
  /\ fetchNearby(position', serviceType)
  /\ last' = [op |-> "fix", fix |-> fix]
  /\ UNCHANGED <<phase, hasGeolocation, theme, sessionVars, vendors,
                 serviceType, shown>>

\* a getCurrentPosition call delivers a fix: setPosition([lat, lng]) with a
\* new array, so the effect on [position, serviceType] always runs
PositionFix(i, fix) ==
  /\ phase = "running"
  /\ i \in 1..Len(geoReqs)
  /\ geoReqs' = RemoveAt(geoReqs, i)
  /\ position' = fix
  /\ fetchNearby(fix, serviceType)
  /\ last' = [op |-> "fix", fix |-> fix]
  /\ UNCHANGED <<phase, hasGeolocation, theme, sessionVars, vendors,
                 serviceType, shown>>

\* an error callback that stores the fallback default as the position
PositionErrorFallsBack(i) ==
  /\ phase = "running"
  /\ i \in 1..Len(geoReqs)
  /\ geoReqs' = RemoveAt(geoReqs, i)
  /\ error' = IF geoReqs[i].onError THEN "Location permission denied"
              ELSE error
  /\ position' = center
  /\ last' = [op |-> "fixFailed"]
  /\ UNCHANGED <<phase, hasGeolocation, theme, sessionVars, vendors,
                 serviceType, loading, vendorReqs, issued, shown>>

\* a getCurrentPosition call fails: the error callback, when one was given
PositionError(i) ==
  /\ phase = "running"
  /\ i \in 1..Len(geoReqs)
  /\ geoReqs' = RemoveAt(geoReqs, i)
  /\ error' = IF geoReqs[i].onError THEN "Location permission denied"
              ELSE error
  /\ last' = [op |-> "fixFailed"]
  /\ UNCHANGED <<phase, hasGeolocation, theme, sessionVars, position, vendors,
                 serviceType, loading, vendorReqs, issued, shown>>

Vendor(i, svc) == [id |-> i, service_type |-> svc]

VendorLists ==
  {<<>>, <<Vendor(1, "tow_truck")>>,
   <<Vendor(2, "mechanic"), Vendor(3, "tow_truck")>>}

\* what the directory endpoint may answer; vendors.present = FALSE is a body
\* without a vendors member
VendorReplies ==
  {[status |-> "neterr", ok |-> FALSE, body |-> "none",
    vendors |-> [present |-> FALSE, list |-> <<>>]]}
  \cup {[status |-> "http", ok |-> FALSE, body |-> "object",
         vendors |-> [present |-> FALSE, list |-> <<>>]]}
  \cup {[status |-> "http", ok |-> TRUE, body |-> b,
         vendors |-> [present |-> FALSE, list |-> <<>>]] :
          b \in {"unparsable", "null", "object"}}
  \cup {[status |-> "http", ok |-> TRUE, body |-> "object",
         vendors |-> [present |-> TRUE, list |-> l]] : l \in VendorLists}

\* fetchNearby's try block throws: fetch rejected, !res.ok, res.json()
\* rejected, or data is null
FetchThrows(reply) ==
  \/ reply.status = "neterr"
  \/ ~reply.ok
  \/ reply.body \in {"unparsable", "null"}

\* a setter that appends the page just received to the list on display
AppliedMerged(reply) ==
  vendors \o (IF reply.vendors.present THEN reply.vendors.list ELSE <<>>)

\* setVendors(data.vendors || [])
Applied(reply) == IF reply.vendors.present THEN reply.vendors.list ELSE <<>>

\* a catch block that also empties the list: setVendors([]) on failure
VendorResolveClearsOnError(i, reply) ==
  /\ phase = "running"
  /\ i \in 1..Len(vendorReqs)
  /\ vendorReqs' = RemoveAt(vendorReqs, i)
  /\ IF FetchThrows(reply)
     THEN /\ error' = "Could not load nearby vendors"
          /\ vendors' = <<>>
          /\ shown' = shown
     ELSE /\ vendors' = Applied(reply)
          /\ shown' = vendorReqs[i].seq
          /\ error' = error
  /\ loading' = FALSE
  /\ last' = [op |-> "fetched", seq |-> vendorReqs[i].seq,
              ok |-> ~FetchThrows(reply), reply |-> reply.vendors]
  /\ UNCHANGED <<phase, hasGeolocation, theme, sessionVars, position,
                 serviceType, geoReqs, issued>>

\* fetchNearby from the settled fetch to its end
VendorResolve(i, reply) ==
  /\ phase = "running"
  /\ i \in 1..Len(vendorReqs)
  /\ vendorReqs' = RemoveAt(vendorReqs, i)
  /\ IF FetchThrows(reply)
     THEN /\ error' = "Could not load nearby vendors"
          /\ UNCHANGED <<vendors, shown>>
     ELSE /\ vendors' = Applied(reply)
          /\ shown' = vendorReqs[i].seq
          /\ error' = error
  /\ loading' = FALSE
  /\ last' = [op |-> "fetched", seq |-> vendorReqs[i].seq,
              ok |-> ~FetchThrows(reply), reply |-> reply.vendors]
  /\ UNCHANGED <<phase, hasGeolocation, theme, sessionVars, position,
                 serviceType, geoReqs, issued>>

NextVendors ==
  \/ Mount
  \/ Reload
  \/ Refresh
  \/ \E k \in CategoryChoices : setServiceType(k)
  \/ RefreshPosition
  \/ \E i \in 1..MaxGeoReqs, f \in Fixes : PositionFix(i, f)
  \/ \E i \in 1..MaxGeoReqs : PositionError(i)
  \/ \E i \in 1..MaxFetches, r \in VendorReplies : VendorResolve(i, r)

SpecVendors == Init /\ [][NextVendors]_vars

Next == NextStore \/ NextVendors

Spec == Init /\ [][Next]_vars

(* ------------- all flows beside a who-am-I call that hangs ------------- *)
\* the inputs this specification draws from: one form, a transport failure
\* and one well-formed success of the auth endpoint, one fix, a transport
\* failure and one one-vendor list of the directory endpoint
FlowForm ==
  [mode |-> "login", phone |-> "0300", email |-> "", password |-> "123456"]

FlowLoginReplies ==
  {r \in LoginReplies :
     \/ r.status = "neterr"
     \/ r.access_token = Str("T1") /\ r.user = Obj(1, "Ali")}

FlowFix == <<248611, 670099>>

FlowVendorReplies ==
  {r \in VendorReplies :
     \/ r.status = "neterr"
     \/ r.vendors.present /\ Len(r.vendors.list) = 1}

\* the session, position and vendor handlers together; who-am-I calls are
\* sent and may hang, and none of them is ever answered
NextFlows ==
  \/ Mount
  \/ Reload
  \/ Submit(FlowForm.mode, FlowForm.phone, FlowForm.email, FlowForm.password)
  \/ \E i \in 1..MaxLoginReqs, r \in FlowLoginReplies : LoginResolve(i, r)
  \/ handleGuest
  \/ logout
  \/ \E i \in 1..MaxVerifyReqs : VerifyStall(i)
  \/ Refresh
  \/ RefreshPosition
  \/ \E i \in 1..MaxGeoReqs : PositionFix(i, FlowFix)
  \/ \E i \in 1..MaxFetches, r \in FlowVendorReplies : VendorResolve(i, r)

SpecFlows == InitSession /\ [][NextFlows]_vars

\* some who-am-I call in flight will never settle
SomeStalled == \E i \in 1..Len(verifyReqs) : verifyReqs[i].stalled

(* ------------------------------ rendering ----------------------------- *)
\* the header shows "Signed in" (and the Logout button) while user is truthy
SignedIn == Truthy(user)

\* a login/register reply as the auth API documents it: a token string and
\* a user record
WellFormed(tok, usr) == tok.t = "string" /\ Truthy(tok) /\ usr.t = "object"

\* the followed who-am-I call is in flight
Watched == \E i \in 1..Len(verifyReqs) : verifyReqs[i].watched

\* the followed who-am-I call is in flight and will never settle
WatchedStalled ==
  \E i \in 1..Len(verifyReqs) : verifyReqs[i].watched /\ verifyReqs[i].stalled

\* the step that led here removed the session: logout or a failed verify
ClearedStep ==
  \/ last.op = "logout"
  \/ last.op = "verified" /\ VerifyThrows(last.outcome)

(* ------------------------------- claims ------------------------------- *)
\* C1: last-issued-wins for vendor fetches: when the successful response of
\* a fetch arrives after the result of a later-issued fetch is already
\* displayed, it is discarded (the displayed collection stays as it is).
C1_LastIssuedWins ==
  [][(last'.op = "fetched" /\ last'.ok /\ last'.seq < shown)
       => vendors' = vendors]_vars

\* C2: a successful login/register call (a reply with a token string and a
\* user record) sets token and user, hides the auth gate so that the session
\* shows as signed in, and has written token and user to localStorage, all
\* in the one step that handles the reply.
C2_LoginSuccessAtomic ==
  (last.op = "authOk" /\ WellFormed(last.token, last.user))
    => /\ token = last.token
       /\ user = last.user
       /\ SignedIn
       /\ ~showAuthGate
       /\ getItem("madad_token") = last.token
       /\ getItem("madad_user") = JSONstringify(last.user)

C2_Witness ==
  /\ last.op = "authOk"
  /\ last.mode = "register"
  /\ token = Str("T2")
  /\ getItem("madad_user") = Str("{\"id\":1,\"name\":\"Ali\"}")

\* C3 as stated: a failed login/register call (network error or non-success
\* response) leaves token, user, gate and localStorage unchanged and shows
\* its reason in the form.
C3_FailedLoginShownInForm ==
  [][(last'.op = "authFailed" /\ last'.cause \in {"network", "status"})
       => /\ token' = token
          /\ user' = user
          /\ showAuthGate' = showAuthGate
          /\ store' = store
          /\ form'.error = last'.message
          /\ form'.error # ""]_vars

\* C3 amended: a failed login/register call (network error or non-success
\* response) leaves token, user, gate and localStorage unchanged; its
\* non-empty reason is shown in the form that issued the call while that
\* form is still mounted, and nowhere once the form was dismissed.
C3_FailedLoginLeavesSession ==
  [][(last'.op = "authFailed" /\ last'.cause \in {"network", "status"})
       => /\ token' = token
          /\ user' = user
          /\ showAuthGate' = showAuthGate
          /\ store' = store
          /\ last'.message # ""
          /\ form' = IF last'.live
                     THEN [loading |-> FALSE, error |-> last'.message]
                     ELSE form]_vars

C3_Witness ==
  /\ last.op = "authFailed"
  /\ last.cause = "status"
  /\ last.live
  /\ form.error = "Invalid credentials"

\* C4 as stated: a verify of a held token that ends in a timeout, a 401, a
\* 500 or a malformed body leaves the session cleared: token and user
\* absent, gate shown, both localStorage entries removed.
C4_VerifyFailureAnyMode ==
  (/\ last.op = "verified"
   /\ last.hadToken
   /\ \/ last.outcome.mode = "timeout"
      \/ last.outcome.status \in {401, 500}
      \/ last.outcome.body = "malformed")
    => /\ token = Null
       /\ user = Null
       /\ showAuthGate
       /\ getItem("madad_token") = Null
       /\ getItem("madad_user") = Null

\* C4 amended: a verify of a held token that ends in a rejected request
\* (timeout, network error) or a non-2xx status (401, 500), whatever the
\* body, leaves the session cleared: token and user absent, gate shown,
\* both localStorage entries removed.  (A 2xx reply is never read: a
\* malformed body under a 2xx status changes nothing.)
C4_VerifyFailureClears ==
  (/\ last.op = "verified"
   /\ last.hadToken
   /\ \/ last.outcome.mode = "timeout"
      \/ last.outcome.status \in {401, 500})
    => /\ token = Null
       /\ user = Null
       /\ showAuthGate
       /\ getItem("madad_token") = Null
       /\ getItem("madad_user") = Null

C4_Witness ==
  /\ last.op = "verified"
  /\ last.hadToken
  /\ last.outcome.status = 500
  /\ last.outcome.body = "malformed"
  /\ token = Null
  /\ showAuthGate

\* C5: in every state of the running app the session shows as signed in
\* if and only if both token and user are present.
C5_SignedInIffTokenAndUser ==
  phase = "running" => (SignedIn <=> (Truthy(token) /\ Truthy(user)))

\* C6: continueAsGuest only hides the gate: token, user and localStorage
\* stay as they were and no request of any kind is issued.
C6_GuestChangesGateOnly ==
  [][last'.op = "guest"
       => /\ ~showAuthGate'
          /\ token' = token
          /\ user' = user
          /\ store' = store
          /\ verifyReqs' = verifyReqs
          /\ Len(loginReqs') = Len(loginReqs)
          /\ geoReqs' = geoReqs
          /\ vendorReqs' = vendorReqs]_vars

C6_Witness ==
  /\ last.op = "guest"
  /\ Truthy(token)
  /\ getItem("madad_token") = token

\* C7: when the page is loaded with the session of a successful
\* login/register still in localStorage, restore yields a token and a user
\* equal to the saved ones.
C7_RestoreRoundTrip ==
  (/\ last.op = "restore"
   /\ ~last.threw
   /\ saved.present
   /\ WellFormed(saved.token, saved.user))
    => (token = saved.token /\ user = saved.user)

C7_Witness ==
  /\ last.op = "restore"
  /\ saved.present
  /\ token = Str("T1")
  /\ user = Obj(2, "")

\* C8 as stated: after logout or a forced logout, reading localStorage finds
\* none of the three entries: token, user and theme.
C8_ClearRemovesAllThree ==
  ClearedStep
    => /\ getItem("madad_token") = Null
       /\ getItem("madad_user") = Null
       /\ getItem("madad_theme") = Null

\* C8 amended: after logout or a forced logout, reading localStorage finds
\* neither the token nor the user entry; the theme entry is left as it was.
C8_ClearRemovesSessionEntries ==
  [][ClearedStep'
       => /\ getItem("madad_token")' = Null
          /\ getItem("madad_user")' = Null
          /\ getItem("madad_theme")' = getItem("madad_theme")]_vars

C8_Witness ==
  /\ ClearedStep
  /\ getItem("madad_theme") = Str("sky")
  /\ getItem("madad_token") = Null
  /\ getItem("madad_user") = Null

\* C9: a manual refresh while position is absent issues a vendor query at
\* the fallback default coordinate (24.8607, 67.0011).
C9_RefreshUsesDefault ==
  (last.op = "refresh" /\ ~last.hadPosition)
    => \E i \in 1..Len(vendorReqs) :
         {<<"lat", ToString(DefaultLat)>>, <<"lng", ToString(DefaultLng)>>}
           \subseteq vendorReqs[i].query

\* C10: logout clears token, user and both localStorage session entries and
\* shows the auth gate, all in the one step of the click.
C10_LogoutAtomic ==
  last.op = "logout"
    => /\ token = Null
       /\ user = Null
       /\ ~SignedIn
       /\ showAuthGate
       /\ getItem("madad_token") = Null
       /\ getItem("madad_user") = Null

C10_Witness ==
  /\ last.op = "logout"
  /\ showAuthGate
  /\ token = Null
  /\ Len(verifyReqs) > 0

\* C11: in every state of the page, from its first render on, the token in
\* memory is present if and only if localStorage holds a token entry.
C11_MemoryAgreesWithStore ==
  phase # "crashed" => (Truthy(token) <=> getItem("madad_token") # Null)

\* C12: when restore finds a user entry that is not valid JSON, it treats
\* the entry as absent and completes: nothing is thrown, the app runs, user
\* stays absent and the gate is set from the token entry.
C12_MalformedUserIsAbsent ==
  (/\ last.op = "restore"
   /\ Truthy(getItem("madad_user"))
   /\ JSONparse(getItem("madad_user").s).threw)
    => /\ ~last.threw
       /\ phase = "running"
       /\ user = Null
       /\ showAuthGate = ~Truthy(getItem("madad_token"))

\* C13 as stated: every verification that is started eventually resolves:
\* whichever call is followed, from whichever moment of its flight, it
\* leaves the calls in flight, the session left as it was or cleared.
C13_VerifyAlwaysResolves == Watched ~> ~Watched

\* C13 amended: every verification whose call the transport settles
\* (response or transport error) eventually resolves, the session left as
\* it was or cleared, unless the page is reloaded first; a call that never
\* settles stays in flight.
C13_SettledVerifyResolves == Watched ~> (~Watched \/ WatchedStalled)

C13_Witness ==
  /\ last.op = "verified"
  /\ last.hadToken
  /\ ~VerifyThrows(last.outcome)
  /\ Truthy(token)
  /\ SignedIn
  /\ ~Watched
  /\ \E i \in 1..Len(verifyReqs) : verifyReqs[i].stalled

\* C14: a vendor fetch that fails (transport error, non-success status,
\* unreadable body) leaves the displayed list, the position, the category,
\* token, user and localStorage as they were, sets the fetch-error notice,
\* and issues no request of any kind.
C14_FailedFetchKeepsState ==
  [][(last'.op = "fetched" /\ ~last'.ok)
       => /\ vendors' = vendors
          /\ position' = position
          /\ serviceType' = serviceType
          /\ token' = token
          /\ user' = user
          /\ store' = store
          /\ error' = "Could not load nearby vendors"
          /\ issued' = issued
          /\ Len(vendorReqs') = Len(vendorReqs) - 1
          /\ geoReqs' = geoReqs
          /\ verifyReqs' = verifyReqs
          /\ loginReqs' = loginReqs]_vars

C14_Witness ==
  /\ last.op = "fetched"
  /\ ~last.ok
  /\ Len(vendors) = 2
  /\ position # NoPosition
  /\ serviceType = "tow_truck"
  /\ error = "Could not load nearby vendors"

\* C15: every step of the running app that changes position or category
\* issues exactly one vendor query, built from the new position and the new
\* category, when the new position is present, and issues none while
\* position is absent.
C15_ReactiveFetch ==
  [][(phase' = "running" /\ (position' # position \/ serviceType' # serviceType))
       => IF position' = NoPosition
          THEN vendorReqs' = vendorReqs /\ issued' = issued
          ELSE /\ issued' = issued + 1
               /\ vendorReqs' =
                    Append(vendorReqs,
                           [seq |-> issued + 1,
                            query |-> Query(position', serviceType')])]_vars

C15_Witness ==
  /\ last.op = "category"
  /\ position = <<315204, 743587>>
  /\ serviceType = "tow_truck"
  /\ \E i \in 1..Len(vendorReqs) :
       vendorReqs[i].query = {<<"lat", "315204">>, <<"lng", "743587">>,
                              <<"radius_km", "5">>,
                              <<"service_type", "tow_truck">>}

\* a category was picked while position was absent and no query went out
C15_WitnessAbsent ==
  /\ last.op = "category"
  /\ position = NoPosition
  /\ serviceType = "tow_truck"
  /\ issued = 0

\* C16: once the latest-issued fetch has succeeded and is displayed, and
\* no position request is pending, the successful completion of the one
\* fetch still in flight leaves displayed the response to the query for the
\* current position and category.
C16_SettledShowsCurrent ==
  [][(/\ last'.op = "fetched"
      /\ last'.ok
      /\ shown = issued
      /\ Len(vendorReqs) = 1
      /\ vendorReqs' = <<>>
      /\ geoReqs = <<>>)
       => vendorReqs[1].query = Query(position', serviceType')]_vars

\* C19: when a position request fails (startup request or locate button),
\* position stays as it was, the location notice is shown and no new
\* position request is made.
C19_PositionErrorNotice ==
  [][last'.op = "fixFailed"
       => /\ position' = position
          /\ error' = "Location permission denied"
          /\ Len(geoReqs') = Len(geoReqs) - 1]_vars

\* C17: no who-am-I request exists before the restore effect has read
\* localStorage, and when restore found a token the one request the page
\* has then sent carries that token.
C17_RestoreBeforeVerify ==
  /\ phase = "init" => verifyReqs = <<>>
  /\ (last.op = "restore" /\ last.threw) => verifyReqs = <<>>
  /\ (last.op = "restore" /\ ~last.threw)
       => IF Truthy(getItem("madad_token"))
          THEN /\ token = getItem("madad_token")
               /\ Len(verifyReqs) = 1
               /\ verifyReqs[1].token = getItem("madad_token")
          ELSE verifyReqs = <<>>

C17_Witness ==
  /\ last.op = "restore"
  /\ getItem("madad_token") = Str("T2")
  /\ Len(verifyReqs) = 1
  /\ verifyReqs[1].token = Str("T2")

\* C20: a login/register reply that is malformed (a 2xx reply without an
\* access token or without a user, or with an unreadable body) leaves
\* token, user, gate and localStorage as they were and shows a message in
\* the form.
C20_MalformedReplyIsAuthError ==
  [][(\/ last'.op = "authOk" /\ ~WellFormed(last'.token, last'.user)
      \/ last'.op = "authFailed" /\ last'.cause = "body")
       => /\ token' = token
          /\ user' = user
          /\ showAuthGate' = showAuthGate
          /\ store' = store
          /\ form'.error # ""]_vars

\* C18: while a who-am-I call is in flight and never resolves, every other
\* flow can take its next step: a pending position request can deliver its
\* fix (which issues the reactive fetch), Refresh and the locate button
\* work, a pending vendor fetch can deliver its result or fail, Logout works
\* while signed in, Continue as Guest and the form's submit work while the
\* gate is shown, and a pending login call can deliver its reply.  (The
\* conditions on issued and on the lengths are the bounds of the model.)
C18_NoFlowBlocked ==
  (phase = "running" /\ SomeStalled)
    => /\ (geoReqs # <<>> /\ issued < MaxFetches)
            => ENABLED PositionFix(1, FlowFix)
       /\ (position # NoPosition /\ issued < MaxFetches) => ENABLED Refresh
       /\ Len(geoReqs) < MaxGeoReqs => ENABLED RefreshPosition
       /\ vendorReqs # <<>>
            => \A r \in FlowVendorReplies : ENABLED VendorResolve(1, r)
       /\ Truthy(user) => ENABLED logout
       /\ showAuthGate => ENABLED handleGuest
       /\ (showAuthGate /\ ~form.loading /\ Len(loginReqs) < MaxLoginReqs)
            => ENABLED Submit(FlowForm.mode, FlowForm.phone, FlowForm.email,
                              FlowForm.password)
       /\ (loginReqs # <<>> /\ Len(verifyReqs) < MaxVerifyReqs)
            => \A r \in FlowLoginReplies : ENABLED LoginResolve(1, r)

\* a vendor result was applied, after a fix, beside a call that hangs
C18_Witness ==
  /\ SomeStalled
  /\ last.op = "fetched"
  /\ last.ok
  /\ Len(vendors) = 1
  /\ position = FlowFix
  /\ Truthy(token)

\* C21: when the who-am-I call that fails was sent for a token other than
\* the current one (logout, a login with another token, or guest mode came
\* in between), the failure leaves token, user, localStorage and the gate
\* as they are.
C21_LateFailureSparesSession ==
  [][(/\ last'.op = "verified"
      /\ VerifyThrows(last'.outcome)
      /\ \E i \in 1..Len(verifyReqs) :
           /\ verifyReqs' = RemoveAt(verifyReqs, i)
           /\ verifyReqs[i].token # token)
       => /\ token' = token
          /\ user' = user
          /\ store' = store
          /\ showAuthGate' = showAuthGate]_vars

\* C22: restore with a token entry present sets the token and hides the
\* gate at once, with the who-am-I call still in flight; with no token
\* entry the gate is shown, and a shown gate is only ever hidden by a
\* successful login or by Continue as Guest.
C22_RestoreRendersAtOnce ==
  /\ [](/\ (last.op = "restore" /\ Truthy(getItem("madad_token")))
             => /\ phase = "running"
                /\ token = getItem("madad_token")
                /\ ~showAuthGate
                /\ Len(verifyReqs) = 1
        /\ (last.op = "restore" /\ ~Truthy(getItem("madad_token")))
             => /\ phase = "running"
                /\ token = Null
                /\ showAuthGate)
  /\ [][(phase = "running" /\ showAuthGate /\ ~showAuthGate')
          => last'.op \in {"authOk", "guest"}]_vars

\* C23: verify sends a who-am-I call only for a truthy token, the one just
\* committed, so with no token no call is sent and nothing changes; and a
\* call answered 2xx leaves token, user, gate and localStorage as they are.
C23_VerifyFrame ==
  [][/\ Len(verifyReqs') > Len(verifyReqs)
          => /\ Truthy(token')
             /\ token' # token
             /\ verifyReqs' = Append(verifyReqs,
                                     [token |-> token', stalled |-> FALSE,
                                      watched |-> FALSE])
     /\ (last'.op = "verified" /\ ~VerifyThrows(last'.outcome))
          => /\ token' = token
             /\ user' = user
             /\ showAuthGate' = showAuthGate
             /\ store' = store]_vars

\* a who-am-I call answered 2xx while the session it was sent for is held:
\* token, user and the stored token are still there and the gate is hidden
C23_Witness ==
  /\ last.op = "verified"
  /\ ~VerifyThrows(last.outcome)
  /\ Truthy(token)
  /\ Truthy(user)
  /\ getItem("madad_token") = Str(String(token))
  /\ ~showAuthGate
  /\ verifyReqs = <<>>

\* C24: a failed verification sets no error notice: the page's error
\* text and the sign-in form's error are left as they were, and the gate
\* is shown.
C24_SilentFailure ==
  [][(last'.op = "verified" /\ VerifyThrows(last'.outcome))
       => /\ error' = error
          /\ form' = form
          /\ (~showAuthGate => form'.error = "")
          /\ showAuthGate'
          /\ token' = Null]_vars

\* a forced logout of a signed-in session: back at the gate, no notice
C24_Witness ==
  /\ last.op = "verified"
  /\ VerifyThrows(last.outcome)
  /\ last.hadToken
  /\ showAuthGate
  /\ token = Null
  /\ error = ""
  /\ form.error = ""

\* C25: every fix that arrives is applied, whichever request it answers and
\* however many position requests are outstanding: after the arrival
\* Position is that fix, and no other step of the page changes it.
C25_LastFixWins ==
  [][/\ last'.op = "fix" => position' = last'.fix
     /\ last'.op \notin {"fix", "reload"} => position' = position]_vars

\* the fix of the locate button arrives while the request of the mount is
\* still outstanding, over a position set by an earlier fix
C25_Witness ==
  /\ last.op = "fix"
  /\ last.fix = <<315204, 743587>>
  /\ position = <<315204, 743587>>
  /\ Len(geoReqs) = 1
  /\ geoReqs[1].onError
  /\ issued >= 2

\* C26: Position is absent or a fix that was delivered, never the fallback
\* default the map is centred on; while it is absent only an arriving fix
\* sets it.
C26_DefaultNeverStored ==
  /\ [](\/ position = NoPosition /\ center = <<DefaultLat, DefaultLng>>
        \/ /\ position \in Fixes
           /\ position # <<DefaultLat, DefaultLng>>
           /\ center = position)
  /\ [][(position = NoPosition /\ position' # NoPosition)
          => last'.op = "fix" /\ position' = last'.fix]_vars

\* the position request of the mount failed: the notice is up, the map is
\* centred on the default and Position is still absent
C26_Witness ==
  /\ last.op = "fixFailed"
  /\ error = "Location permission denied"
  /\ position = NoPosition
  /\ center = <<DefaultLat, DefaultLng>>
  /\ geoReqs = <<>>

\* C27: after a successful fetch the displayed list is exactly the vendor
\* list of that response, nothing of the earlier list is kept; a successful
\* response without a vendor list gives the empty list.
C27_SuccessReplacesList ==
  (last.op = "fetched" /\ last.ok)
    => /\ last.reply.present => vendors = last.reply.list
       /\ ~last.reply.present => vendors = <<>>

\* the second fetch succeeded with a one-vendor list, which is what is shown
C27_Witness ==
  /\ last.op = "fetched"
  /\ last.ok
  /\ last.seq = 2
  /\ shown = 2
  /\ last.reply.present
  /\ vendors = <<Vendor(1, "tow_truck")>>
  /\ vendorReqs = <<>>

\* a successful response without a vendor list emptied the display
C27_WitnessNoList ==
  /\ last.op = "fetched"
  /\ last.ok
  /\ last.seq = 2
  /\ ~last.reply.present
  /\ vendors = <<>>

\* C28: every vendor query that is sent carries the position and the
\* category of the moment it is sent and the radius 5 km: lat and lng are
\* the position's, radius_km is "5", and service_type is the category when
\* one is selected and is left out when the category is "all".
C28_QueryParameters ==
  [][issued' = issued + 1
       => /\ position' # NoPosition
          /\ Len(vendorReqs') = Len(vendorReqs) + 1
          /\ LET q == vendorReqs'[Len(vendorReqs')].query
             IN /\ <<"lat", ToString(position'[1])>> \in q
                /\ <<"lng", ToString(position'[2])>> \in q
                /\ <<"radius_km", "5">> \in q
                /\ serviceType' # "" => <<"service_type", serviceType'>> \in q
                /\ serviceType' = "" => \A p \in q : p[1] # "service_type"
                /\ \A p \in q : p[1] \in {"lat", "lng", "radius_km",
                                         "service_type"}
                /\ Cardinality(q) = IF serviceType' # "" THEN 4 ELSE 3]_vars

\* a query sent on choosing the tow_truck chip, and one sent on going back
\* to "all" with a tow_truck query still in flight
C28_Witness ==
  /\ last.op = "category"
  /\ serviceType = ""
  /\ Len(vendorReqs) = 2
  /\ <<"service_type", "tow_truck">> \in vendorReqs[1].query
  /\ vendorReqs[2].query = {<<"lat", ToString(position[1])>>,
                            <<"lng", ToString(position[2])>>,
                            <<"radius_km", "5">>}

\* C29: when the auth endpoint answers with a non-success status, the
\* reason shown by the sign-in form is the detail of the response when it
\* has one, and "Authentication failed" when it has none or its body cannot
\* be parsed.
C29_AuthErrorReason ==
  (last.op = "authFailed" /\ last.cause = "status" /\ last.live)
    => form.error = IF Truthy(last.detail) THEN String(last.detail)
                    ELSE "Authentication failed"

\* C30: the loading indicator is off only when no vendor fetch is in
\* flight, and it is off once every fetch that was sent has completed.
C30_LoadingTracksFetches ==
  phase = "running" => (loading <=> vendorReqs # <<>>)

\* C31: a login or register request is sent only by a submit whose password
\* has at least 6 characters and whose phone or email is non-empty; a
\* submit that fails this check sends nothing and changes no state.
C31_SubmitGuard ==
  [][/\ Len(loginReqs') > Len(loginReqs)
          => /\ last'.op = "submit"
             /\ Len(last'.password) >= MinPasswordLen
             /\ (last'.phone # "" \/ last'.email # "")
             /\ loginReqs' = Append(loginReqs,
                                    loginReqs'[Len(loginReqs')])
     /\ last'.op = "submitBlocked"
          => UNCHANGED <<phase, hasGeolocation, token, user, showAuthGate,
                         theme, position, vendors, serviceType, loading,
                         error, store, form, loginReqs, verifyReqs, geoReqs,
                         vendorReqs, issued, shown, saved>>]_vars

\* a submit that failed the check, made after a failed login: the form
\* still shows that login's error and no request is in flight
C31_Witness ==
  /\ last.op = "submitBlocked"
  /\ showAuthGate
  /\ form.error # ""
  /\ ~form.loading
  /\ loginReqs = <<>>

\* C32: the active theme is a known theme key in every state: it starts as
\* "emerald", restore applies the persisted theme only when it is a known
\* key, every theme change is written through to the madad_theme entry, and
\* logout leaves that entry as it is.
C32_ThemeIsKnownKey ==
  /\ [](/\ IsThemeKey(theme)
        /\ phase = "init" => theme = "emerald"
        /\ last.op = "restore"
             => theme = IF /\ getItem("madad_theme").t = "string"
                           /\ IsThemeKey(getItem("madad_theme").s)
                        THEN getItem("madad_theme").s ELSE "emerald"
        /\ last.op = "theme" => getItem("madad_theme") = Str(theme))
  /\ [][last'.op = "logout"
          => /\ getItem("madad_theme")' = getItem("madad_theme")
             /\ theme' = theme]_vars

====
